---------------------------- MODULE Spec2Model ----------------------------
(***************************************************************************)
(* A state-machine model of osm-history-animation (src/src/main.rs):       *)
(* the ingest pass read_pbf (temporal binning, saturating aggregation,     *)
(* dense renumbering), the equirectangular projection, the intermediate    *)
(* file (write_frames / read_metadata / read_frames / main's option        *)
(* handling), the decaying raster of create_gif / create_frames, and       *)
(* ColourRamp::index_for_magnitude.                                        *)
(*                                                                         *)
(* TLC's integers are 32 bits wide, so u32 and u64 values are kept as      *)
(* little-endian sequences of 16-bit limbs (2 limbs for u32, 4 for u64)    *)
(* and f32 values as sign / 24-bit significand / exponent triples with     *)
(* round-to-nearest-even, so that truncation, wrap-around and rounding     *)
(* happen in the model where they happen in the program.                   *)
(***************************************************************************)
EXTENDS Integers, Sequences, FiniteSets, TLC

VARIABLES
    \* ---- read_pbf ----
    overflow_checks,  \* the build: TRUE = arithmetic overflow panics (debug),
                      \* FALSE = it wraps (release)
    sec_per_frame,    \* read_pbf's parameter
    results,          \* HashMap<u32, HashMap<u32, u16>>
    first_frame_no,   \* u32
    last_frame_no,    \* u32
    frame_no,         \* u32, the loop body's local of the last node read
    num_nodes,        \* u64 (small in the model)
    pc,               \* "reading" | "done" | "panic_timestamp" | "panic_overflow"
    sorted_results,   \* the returned Frames
    stream,           \* history: the nodes the reader has yielded so far
    \* ---- ColourRamp::index_for_magnitude ----
    ramp_magnitude,   \* the argument, Option<u32>
    ramp_index,       \* None before the call, Some(returned u8) after it
    \* ---- latlon_to_pixel_index ----
    proj_args,        \* [lat, lon, width, height, bbox]
    proj_ret,         \* [called, panic, value]: the call's outcome
    \* ---- create_gif / create_frames ----
    render_args,      \* [width, height, mode]: mode "gif" (create_gif) or "frames"
    image,            \* Vec<Option<f32>>, the raster
    frames_done,      \* iterations of `for (frame_no, pixels) in frames` completed
    emitted,          \* the u8 buffer handed to the encoder for the last frame
    since_base,       \* history: per pixel, its value after the last frame that added to it
    since_frames,     \* history: per pixel, the frames rendered since then
    \* ---- main, write_frames, read_metadata, read_frames ----
    file_pc,          \* "idle" | "start" | "saved" | "loaded" | "panic"
    saved_cfg,        \* the configuration in effect in the run that saves
    frames_mem,       \* the Frames that run holds
    file,             \* the intermediate file: a sequence of lines of characters
    cli,              \* the options given to the run that loads
    loaded_cfg,       \* the configuration in effect in the run that loads
    loaded_frames     \* the Frames read_frames returned

ingestVars == <<overflow_checks, sec_per_frame, results, first_frame_no,
                last_frame_no, frame_no, num_nodes, pc, sorted_results, stream>>

rampVars == <<ramp_magnitude, ramp_index>>

projVars == <<proj_args, proj_ret>>

renderVars == <<render_args, image, frames_done, emitted, since_base, since_frames>>

fileVars == <<file_pc, saved_cfg, frames_mem, file, cli, loaded_cfg, loaded_frames>>

vars == <<ingestVars, rampVars, projVars, renderVars, fileVars>>

(***************************************************************************)
(* Option<T>                                                               *)
(***************************************************************************)
None == <<>>
Some(x) == <<x>>
IsSome(o) == o # <<>>
Unwrap(o) == o[1]

(***************************************************************************)
(* Fixed-width unsigned integers as little-endian 16-bit limbs.            *)
(***************************************************************************)
Limb == 2^16
Min(a, b) == IF a <= b THEN a ELSE b

\* the limbs of a natural number n < 2^31, n limbs wide
WFromInt(n, len) == [i \in 1..len |-> IF i = 1 THEN n % Limb
                                        ELSE IF i = 2 THEN n \div Limb ELSE 0]

U32(n) == WFromInt(n, 2)
U64(n) == WFromInt(n, 4)

\* `x as u64` of a u32, `x as u32` of a u64
Widen(a) == a \o <<0, 0>>
Truncate32(a) == SubSeq(a, 1, 2)

WLt(a, b) == \E i \in 1..Len(a) : /\ a[i] < b[i]
                                  /\ \A j \in (i+1)..Len(a) : a[j] = b[j]
WLe(a, b) == a = b \/ WLt(a, b)

RECURSIVE Borrow(_, _, _)
Borrow(a, b, i) == IF i = 0 THEN 0
                   ELSE IF a[i] - b[i] - Borrow(a, b, i-1) < 0 THEN 1 ELSE 0
\* a - b modulo 2^(16 * Len(a))
WSub(a, b) == [i \in 1..Len(a) |-> (a[i] - b[i] - Borrow(a, b, i-1) + Limb) % Limb]

RECURSIVE Carry(_, _, _)
Carry(a, b, i) == IF i = 0 THEN 0
                  ELSE IF a[i] + b[i] + Carry(a, b, i-1) >= Limb THEN 1 ELSE 0
\* a + b modulo 2^(16 * Len(a))
WAdd(a, b) == [i \in 1..Len(a) |-> (a[i] + b[i] + Carry(a, b, i-1)) % Limb]
\* whether a + b or a - b leaves the width
WAddOverflows(a, b) == Carry(a, b, Len(a)) = 1
WSubOverflows(a, b) == Borrow(a, b, Len(a)) = 1

\* a / d for an integer divisor 0 < d <= 2^15: schoolbook long division, high
\* limb first; <<quotient limbs i.., remainder>>
RECURSIVE DivLimbs(_, _, _)
DivLimbs(a, d, i) ==
    IF i > Len(a) THEN << <<>>, 0 >>
    ELSE LET up  == DivLimbs(a, d, i + 1)
             cur == up[2] * Limb + a[i]
         IN << <<cur \div d>> \o up[1], cur % d >>
WDiv(a, d) == DivLimbs(a, d, 1)[1]

\* the value of a as an integer, for a < 2^31
WToInt(a) == a[1] + Limb * a[2]
WIsSmall(a) == a[2] < 2^15 /\ \A i \in 3..Len(a) : a[i] = 0

U32Max == <<Limb - 1, Limb - 1>>
U16Max == 65535

(***************************************************************************)
(* f32: finite values are (-1)^s * m * 2^e with m = 0 or 2^23 <= m < 2^24, *)
(* every operation rounds to nearest, ties to even.  Exponents are not     *)
(* bounded: the values the model draws stay far from f32's overflow and    *)
(* underflow thresholds.                                                   *)
(***************************************************************************)
NaN == [nan |-> TRUE, s |-> 0, m |-> 0, e |-> 0]
FZero == [nan |-> FALSE, s |-> 0, m |-> 0, e |-> 0]

RECURSIVE BitLen(_)
BitLen(n) == IF n = 0 THEN 0 ELSE 1 + BitLen(n \div 2)

\* the f32 nearest to (-1)^s * n * 2^e, for an integer 0 <= n < 2^31
RoundPack(s, n, e) ==
    IF n = 0 THEN FZero
    ELSE LET bits == BitLen(n)
         IN IF bits <= 24
            THEN [nan |-> FALSE, s |-> s, m |-> n * 2^(24 - bits), e |-> e - (24 - bits)]
            ELSE LET shift == bits - 24
                     q     == n \div 2^shift
                     r     == n % 2^shift
                     half  == 2^(shift - 1)
                     up    == r > half \/ (r = half /\ q % 2 = 1)
                     q1    == IF up THEN q + 1 ELSE q
                 IN IF q1 = 2^24
                    THEN [nan |-> FALSE, s |-> s, m |-> 2^23, e |-> e + shift + 1]
                    ELSE [nan |-> FALSE, s |-> s, m |-> q1, e |-> e + shift]

\* `n as f32` for an unsigned integer n < 2^31
FFromInt(n) == RoundPack(0, n, 0)
FNeg(a) == IF a.nan THEN a ELSE [a EXCEPT !.s = 1 - a.s]

\* n / 2^d with the bits shifted out or-ed into the last bit kept
ShiftJam(n, d) ==
    IF d = 0 THEN n
    ELSE IF d > 30 THEN (IF n = 0 THEN 0 ELSE 1)
    ELSE LET q == n \div 2^d
         IN IF n % 2^d # 0 /\ q % 2 = 0 THEN q + 1 ELSE q

\* a + b
FAdd(a, b) ==
    IF a.nan \/ b.nan THEN NaN
    ELSE IF a.m = 0 THEN (IF b.m = 0 THEN FZero ELSE b)
    ELSE IF b.m = 0 THEN a
    ELSE LET hi == IF a.e >= b.e THEN a ELSE b
             lo == IF a.e >= b.e THEN b ELSE a
             x  == hi.m * 8
             y  == ShiftJam(lo.m * 8, hi.e - lo.e)
         IN IF hi.s = lo.s THEN RoundPack(hi.s, x + y, hi.e - 3)
            ELSE IF x >= y THEN RoundPack(hi.s, x - y, hi.e - 3)
            ELSE RoundPack(lo.s, y - x, hi.e - 3)
\* a - b
FSub(a, b) == FAdd(a, FNeg(b))

\* a * b
FMul(a, b) ==
    IF a.nan \/ b.nan THEN NaN
    ELSE IF a.m = 0 \/ b.m = 0 THEN FZero
    ELSE LET a1 == a.m \div 2^12
             a0 == a.m % 2^12
             b1 == b.m \div 2^12
             b0 == b.m % 2^12
             mid == a1 * b0 + a0 * b1
             low == (mid % 2^12) * 2^12 + a0 * b0
             hi  == a1 * b1 + mid \div 2^12 + low \div 2^24
             lo  == low % 2^24
             \* the product is hi * 2^24 + lo; keep its top 26 bits and a sticky bit
             t   == hi * 4 + lo \div 2^22
             st  == IF lo % 2^22 # 0 THEN 1 ELSE 0
         IN RoundPack((a.s + b.s) % 2, 2 * t + st, a.e + b.e + 21)

\* k more groups of 7 quotient bits of rem / d: <<quotient, remainder>>
RECURSIVE DivChunks(_, _, _, _)
DivChunks(rem, q, d, k) ==
    IF k = 0 THEN <<q, rem>>
    ELSE DivChunks((rem * 128) % d, q * 128 + (rem * 128) \div d, d, k - 1)

\* a / b
FDiv(a, b) ==
    IF a.nan \/ b.nan THEN NaN
    ELSE IF b.m = 0 THEN NaN     \* 0/0; x/0 with x # 0 (an infinity) is not reached
    ELSE IF a.m = 0 THEN FZero
    ELSE LET qr == DivChunks(a.m % b.m, a.m \div b.m, b.m, 4)
             st == IF qr[2] # 0 THEN 1 ELSE 0
         IN RoundPack((a.s + b.s) % 2, 2 * qr[1] + st, a.e - b.e - 29)

\* a < b, a <= b (false when either is NaN)
FLt(a, b) ==
    /\ ~ a.nan /\ ~ b.nan
    /\ LET d == FSub(a, b) IN d.m # 0 /\ d.s = 1
FLe(a, b) == ~ a.nan /\ ~ b.nan /\ ~ FLt(b, a)

\* `a as u32` for a finite a below 2^31: truncation toward zero, negatives to 0
FToU32(a) ==
    IF a.nan \/ a.s = 1 \/ a.m = 0 THEN 0
    ELSE IF a.e >= 0 THEN a.m * 2^a.e
    ELSE IF a.e < -24 THEN 0
    ELSE a.m \div 2^(-a.e)

\* f32::round: to the nearest integer, halves away from zero (magnitude only)
FRoundMagnitude(a) ==
    IF a.m = 0 THEN 0
    ELSE IF a.e >= 0 THEN a.m * 2^a.e
    ELSE IF a.e < -24 THEN 0
    ELSE LET k == -a.e
             q == a.m \div 2^k
         IN IF a.m % 2^k >= 2^(k - 1) THEN q + 1 ELSE q

(***************************************************************************)
(* Bounds of the model.                                                    *)
(***************************************************************************)
\* nodes read by one ingest pass
MaxEvents == 3
\* frames a finalize pass may emit
MaxFrames == 4
\* nodes read by the saturation run (all in one cell)
MaxSatNodes == 70000
\* largest magnitude handed to the colour ramp
MaxMagnitude == 300
\* frames replayed by one render pass
MaxRenderFrames == 3
\* frames held by the run that saves the intermediate file
MaxFileFrames == 2

(***************************************************************************)
(* read_pbf: the ingest pass.                                              *)
(***************************************************************************)
\* let osm_epoch = 1109635200;
osm_epoch == 1109635200

EmptyMap == [x \in {} |-> 0]
Put(m, k, v) == [x \in DOMAIN m \cup {k} |-> IF x = k THEN v ELSE m[x]]
Remove(m, k) == [x \in DOMAIN m \ {k} |-> m[x]]

\* let offset = (timestamp - osm_epoch) as u32; let frame_no = offset / sec_per_frame;
FrameNo(timestamp, spf) ==
    WDiv(Truncate32(WSub(timestamp, U64(osm_epoch))), spf)

\* *curr_val += 1 on a u16 without the test, wrapping around
SatIncrWrapping(c) == (c + 1) % (U16Max + 1)
\* if *curr_val < std::u16::MAX { *curr_val += 1; }
SatIncr(c) == IF c < U16Max THEN c + 1 ELSE c

\* results.entry(frame_no).or_insert(HashMap::new()).entry(pixel_idx).or_insert(0)
\* followed by the saturating increment
Record(res, f, p) ==
    LET inner == IF f \in DOMAIN res THEN res[f] ELSE EmptyMap
        curr  == IF p \in DOMAIN inner THEN inner[p] ELSE 0
    IN Put(res, f, Put(inner, p, SatIncr(curr)))

\* one iteration of `for node in node_reader`
ReadNode(node) ==
    /\ pc = "reading"
    /\ IF ~node.coords
       THEN UNCHANGED <<results, first_frame_no, last_frame_no, frame_no, num_nodes, pc>>
       ELSE IF WLt(node.timestamp, U64(osm_epoch))
       THEN /\ pc' = "panic_timestamp"
            /\ UNCHANGED <<results, first_frame_no, last_frame_no, frame_no, num_nodes>>
       ELSE LET fn == FrameNo(node.timestamp, sec_per_frame)
            IN /\ frame_no' = fn
               /\ first_frame_no' = IF WLt(fn, first_frame_no) THEN fn ELSE first_frame_no
               /\ last_frame_no' = IF WLt(last_frame_no, fn) THEN fn ELSE last_frame_no
               /\ results' = IF IsSome(node.pixel)
                                THEN Record(results, fn, Unwrap(node.pixel))
                                ELSE results
               /\ num_nodes' = num_nodes + 1
               /\ pc' = pc
    /\ UNCHANGED <<overflow_checks, sec_per_frame, sorted_results>>

\* every order in which a HashMap's into_iter() may yield its entries
Orders(m) ==
    LET n == Cardinality(DOMAIN m)
    IN { [i \in 1..n |-> <<k[i], m[k[i]]>>] :
            k \in { s \in [1..n -> DOMAIN m] : \A x \in DOMAIN m : \E i \in 1..n : s[i] = x } }

\* the first n records pushed by `for frame_no in 0..num_frames`
RECURSIVE SortedPrefixes(_, _, _)
SortedPrefixes(res, first, n) ==
    IF n = 0 THEN { <<>> }
    ELSE LET key == WAdd(U32(n - 1), first)
             pixels == IF key \in DOMAIN res THEN Orders(res[key]) ELSE { <<>> }
         IN { Append(prev, <<n - 1, px>>) :
                 prev \in SortedPrefixes(res, first, n - 1), px \in pixels }

RECURSIVE RemoveFrames(_, _, _)
RemoveFrames(res, first, n) ==
    IF n = 0 THEN res
    ELSE Remove(RemoveFrames(res, first, n - 1), WAdd(U32(n - 1), first))

\* let num_frames = last_frame_no - first_frame_no + 1;
NumFramesOverflows ==
    \/ WSubOverflows(last_frame_no, first_frame_no)
    \/ WAddOverflows(WSub(last_frame_no, first_frame_no), U32(1))
NumFrames == WAdd(WSub(last_frame_no, first_frame_no), U32(1))

\* the code after the loop: num_frames and the dense, renumbered sequence
Finalize ==
    /\ pc = "reading"
    /\ IF NumFramesOverflows /\ overflow_checks
       THEN /\ pc' = "panic_overflow"
            /\ UNCHANGED <<results, sorted_results>>
       ELSE /\ WIsSmall(NumFrames) /\ WToInt(NumFrames) <= MaxFrames
            /\ sorted_results' \in SortedPrefixes(results, first_frame_no, WToInt(NumFrames))
            /\ results' = RemoveFrames(results, first_frame_no, WToInt(NumFrames))
            /\ pc' = "done"
    /\ UNCHANGED <<overflow_checks, sec_per_frame, first_frame_no, last_frame_no,
                   frame_no, num_nodes, stream>>

(***************************************************************************)
(* ColourRamp::index_for_magnitude                                         *)
(***************************************************************************)
index_for_magnitude(magnitude) ==
    IF magnitude = None THEN 0
    ELSE IF Unwrap(magnitude) > 255 THEN 1
    ELSE 255 - Unwrap(magnitude)

IdleRamp == ramp_magnitude = None /\ ramp_index = None
InitRamp ==
    /\ ramp_magnitude \in {None} \cup { Some(m) : m \in 0..MaxMagnitude }
    /\ ramp_index = None

CallIndexForMagnitude ==
    /\ ramp_index = None
    /\ ramp_index' = Some(index_for_magnitude(ramp_magnitude))
    /\ UNCHANGED <<ramp_magnitude, ingestVars, projVars, renderVars, fileVars>>

(***************************************************************************)
(* The equirectangular projection and main's canvas width.                 *)
(***************************************************************************)
\* main: `let width = match projection { ... }`
CanvasWidth(projection, bbox, height) ==
    IF projection = "ortho" THEN height
    ELSE LET bbox_width  == FSub(bbox[3], bbox[1])
             bbox_height == FSub(bbox[4], bbox[2])
         IN FToU32(FMul(FDiv(bbox_width, bbox_height), FFromInt(height)))

\* if lat >= top || lat <= bottom || lon >= right || lon <= left { return None; }
Outside(lat, lon, bbox) ==
    FLe(bbox[4], lat) \/ FLe(lat, bbox[2]) \/ FLe(bbox[3], lon) \/ FLe(lon, bbox[1])

\* [panic, value]: the assertion's failure, or the Option<u32> returned
latlon_to_pixel_index(lat, lon, width, height, bbox) ==
    LET left == bbox[1]
        bottom == bbox[2]
        right == bbox[3]
        top == bbox[4]
        bbox_width == FSub(right, left)
        bbox_height == FSub(top, bottom)
        lat0 == FSub(top, lat)
        lon0 == FSub(lon, left)
        x == FToU32(FMul(FDiv(lon0, bbox_width), FFromInt(width)))
        y == FToU32(FMul(FDiv(lat0, bbox_height), FFromInt(height)))
        i == y * width + x
    IN IF Outside(lat, lon, bbox) THEN [panic |-> FALSE, value |-> None]
       ELSE IF ~ (i < width * height) THEN [panic |-> TRUE, value |-> None]
       ELSE [panic |-> FALSE, value |-> Some(i)]

\* degrees in units of 2^-17 (the spacing of f32 between 64 and 128) as f32
Deg17(n) == RoundPack(IF n < 0 THEN 1 ELSE 0, IF n < 0 THEN -n ELSE n, -17)
Unit17 == 2^17
WorldBbox == <<Deg17(-180 * Unit17), Deg17(-90 * Unit17), Deg17(180 * Unit17), Deg17(90 * Unit17)>>
SmallBbox == <<Deg17(-10 * Unit17), Deg17(-10 * Unit17), Deg17(10 * Unit17), Deg17(10 * Unit17)>>
CanvasSet == { [bbox |-> WorldBbox, height |-> 4],
               [bbox |-> WorldBbox, height |-> 20],
               [bbox |-> SmallBbox, height |-> 20] }
\* whole degrees, and the f32 neighbours of the bounding boxes' edges
CoordSet ==
    { Deg17(d * Unit17) : d \in {-180, -90, -10, -5, 0, 5, 10, 90, 180} }
      \cup { Deg17(-180 * Unit17 + 2), Deg17(-90 * Unit17 + 1), Deg17(-10 * Unit17 + 1),
             Deg17(10 * Unit17 - 1), Deg17(90 * Unit17 - 1), Deg17(180 * Unit17 - 2) }

NotCalled == [called |-> FALSE, panic |-> FALSE, value |-> None]
IdleProj ==
    /\ proj_args = [lat |-> FZero, lon |-> FZero, width |-> 0, height |-> 0, bbox |-> WorldBbox]
    /\ proj_ret = NotCalled
InitProj ==
    /\ \E c \in CanvasSet, lat \in CoordSet, lon \in CoordSet :
          proj_args = [lat |-> lat, lon |-> lon,
                       width |-> CanvasWidth("equirect", c.bbox, c.height),
                       height |-> c.height, bbox |-> c.bbox]
    /\ proj_ret = NotCalled

CallLatlonToPixelIndex ==
    /\ ~ proj_ret.called
    /\ LET r == latlon_to_pixel_index(proj_args.lat, proj_args.lon, proj_args.width,
                                      proj_args.height, proj_args.bbox)
       IN proj_ret' = [called |-> TRUE, panic |-> r.panic, value |-> r.value]
    /\ UNCHANGED <<proj_args, ingestVars, rampVars, renderVars, fileVars>>

(***************************************************************************)
(* create_gif / create_frames: the decaying raster.                        *)
(***************************************************************************)
U8Max == 255
\* the literal 0.99 as f32: 16609444 * 2^-24
DecayFactor == [nan |-> FALSE, s |-> 0, m |-> 16609444, e |-> -24]

\* decay_image, with the loop stopping one pixel short
decay_image_short(img) ==
    [i \in 1..Len(img) |->
        IF i < Len(img) /\ IsSome(img[i]) /\ FLt(FZero, Unwrap(img[i]))
        THEN Some(FMul(Unwrap(img[i]), DecayFactor)) ELSE img[i]]
decay_image(img) ==
    [i \in 1..Len(img) |->
        IF IsSome(img[i]) /\ FLt(FZero, Unwrap(img[i]))
        THEN Some(FMul(Unwrap(img[i]), DecayFactor)) ELSE img[i]]

\* for (i, magnitude) in pixels { if i < width*height { ... } }, first k deltas
RECURSIVE Accumulate(_, _, _, _)
Accumulate(img, pixels, size, k) ==
    IF k = 0 THEN img
    ELSE LET prev == Accumulate(img, pixels, size, k - 1)
             i == pixels[k][1]
             magnitude == pixels[k][2]
         IN IF i < size
            THEN LET old == IF IsSome(prev[i + 1]) THEN Unwrap(prev[i + 1]) ELSE FZero
                 IN [prev EXCEPT ![i + 1] = Some(FAdd(old, FFromInt(magnitude)))]
            ELSE prev

\* get_max_value over the first k pixels
RECURSIVE MaxValue(_, _)
MaxValue(img, k) ==
    IF k = 0 THEN FZero
    ELSE LET max == MaxValue(img, k - 1)
         IN IF IsSome(img[k]) /\ FLt(max, Unwrap(img[k])) THEN Unwrap(img[k]) ELSE max
get_max_value(img) == MaxValue(img, Len(img))

\* A NaN cast to an integer is undefined behaviour before Rust 1.45 and 0 since:
\* 0 and two representatives of the other bytes such a cast may leave
NaNCastOutcomes == {0, 1, U8Max}
\* `x as u8` for x = (255f32 * (val/max)).round(): saturating for numbers
CastU8(a) ==
    IF a.nan THEN NaNCastOutcomes
    ELSE IF a.s = 1 THEN {0}
    ELSE { Min(FRoundMagnitude(a), U8Max) }
\* the values one pixel's intensity may take
Intensity(p, max) ==
    IF p = None THEN {0}
    ELSE CastU8(FMul(FFromInt(255), FDiv(Unwrap(p), max)))

\* every buffer the emit loop may push for the first k pixels
RECURSIVE Buffers(_, _, _)
Buffers(img, max, k) ==
    IF k = 0 THEN { <<>> }
    ELSE { Append(b, v) : b \in Buffers(img, max, k - 1), v \in Intensity(img[k], max) }

\* one iteration of the frame loop of create_gif / create_frames
RenderFrame(pixels) ==
    LET size == render_args.width * render_args.height
        img  == Accumulate(decay_image(image), pixels, size, Len(pixels))
        max  == get_max_value(img)
    IN /\ image' = img
       /\ emitted' \in Buffers(img, max, size)
       /\ frames_done' = frames_done + 1
       /\ UNCHANGED render_args

RenderCanvasSet == { [width |-> 2, height |-> 1] }
\* deltas of a loaded or aggregated frame: in-range and out-of-range indices,
\* counts 0 (possible only in a loaded file), 1 and the cap
DeltaChoices == { <<0, 0>>, <<0, 1>>, <<1, 1>>, <<1, U16Max>>, <<2, 1>> }
FrameRecordSet ==
    { <<>> } \cup { <<d>> : d \in DeltaChoices }
             \cup { <<d1, d2>> : d1 \in DeltaChoices, d2 \in DeltaChoices }

IdleRender ==
    /\ render_args = [width |-> 0, height |-> 0, mode |-> "gif"]
    /\ image = <<>>
    /\ frames_done = 0
    /\ emitted = <<>>
    /\ since_base = <<>>
    /\ since_frames = <<>>
\* let mut image = vec![None; (width*height) as usize];
InitRender ==
    /\ \E c \in RenderCanvasSet, mode \in {"gif", "frames"} :
          /\ render_args = [width |-> c.width, height |-> c.height, mode |-> mode]
          /\ image = [i \in 1..(c.width * c.height) |-> None]
          /\ since_base = [i \in 1..(c.width * c.height) |-> None]
          /\ since_frames = [i \in 1..(c.width * c.height) |-> 0]
    /\ frames_done = 0
    /\ emitted = <<>>

\* the pixels a record adds to
Touched(pixels) ==
    { pixels[k][1] + 1 : k \in { j \in 1..Len(pixels) :
                                  pixels[j][1] < render_args.width * render_args.height } }
History(pixels) ==
    /\ since_base' = [i \in 1..Len(image) |->
                         IF i \in Touched(pixels) THEN image'[i] ELSE since_base[i]]
    /\ since_frames' = [i \in 1..Len(image) |->
                           IF i \in Touched(pixels) \/ since_base[i] = None
                           THEN 0 ELSE since_frames[i] + 1]

CreateGifFrame ==
    \E pixels \in FrameRecordSet :
        /\ render_args.mode = "gif"
        /\ frames_done < MaxRenderFrames
        /\ RenderFrame(pixels)
        /\ History(pixels)
        /\ UNCHANGED <<ingestVars, rampVars, projVars, fileVars>>

CreateFramesFrame ==
    \E pixels \in FrameRecordSet :
        /\ render_args.mode = "frames"
        /\ frames_done < MaxRenderFrames
        /\ RenderFrame(pixels)
        /\ History(pixels)
        /\ UNCHANGED <<ingestVars, rampVars, projVars, fileVars>>

(***************************************************************************)
(* Text: a string is a sequence of one-character strings.                  *)
(***************************************************************************)
Digits == <<"0", "1", "2", "3", "4", "5", "6", "7", "8", "9">>
IsDigit(c) == \E d \in 1..10 : Digits[d] = c
DigitValue(c) == (CHOOSE d \in 1..10 : Digits[d] = c) - 1

\* format!("{}", n) for an unsigned integer
RECURSIVE FmtNat(_)
FmtNat(n) == IF n < 10 THEN <<Digits[n + 1]>> ELSE Append(FmtNat(n \div 10), Digits[(n % 10) + 1])

\* the value of the first k characters of a string of digits
RECURSIVE DigitsValue(_, _)
DigitsValue(t, k) == IF k = 0 THEN 0 ELSE 10 * DigitsValue(t, k - 1) + DigitValue(t[k])
AllDigits(t) == t # <<>> /\ \A k \in 1..Len(t) : IsDigit(t[k])
\* str::parse::<u32>: None for what is not a number.  Texts of ten digits or
\* more, the only ones that can exceed u32::MAX, are not drawn and read as None.
ParseU32(t) ==
    IF AllDigits(t) /\ Len(t) <= 9 THEN Some(DigitsValue(t, Len(t))) ELSE None
\* str::parse::<u16>: None for what is not a number up to u16::MAX
ParseU16(t) ==
    IF AllDigits(t) /\ Len(t) <= 9 /\ DigitsValue(t, Len(t)) <= U16Max
    THEN Some(DigitsValue(t, Len(t))) ELSE None

\* str::split(sep).collect()
RECURSIVE SplitAcc(_, _, _, _, _)
SplitAcc(t, sep, i, acc, cur) ==
    IF i > Len(t) THEN Append(acc, cur)
    ELSE IF t[i] = sep THEN SplitAcc(t, sep, i + 1, Append(acc, cur), <<>>)
    ELSE SplitAcc(t, sep, i + 1, acc, Append(cur, t[i]))
Split(t, sep) == SplitAcc(t, sep, 1, <<>>, <<>>)
StartsWith(t, prefix) == Len(t) >= Len(prefix) /\ SubSeq(t, 1, Len(prefix)) = prefix

RECURSIVE Pow10(_)
Pow10(k) == IF k = 0 THEN 1 ELSE 10 * Pow10(k - 1)
\* format!("{}", x) for an f32 that is a multiple of 0.5 below 2^23: the shortest
\* decimal that reads back as x
FmtF32(a) ==
    LET halves == IF a.m = 0 THEN 0
                  ELSE IF a.e + 1 >= 0 THEN a.m * 2^(a.e + 1) ELSE a.m \div 2^(-(a.e + 1))
    IN (IF a.s = 1 THEN <<"-">> ELSE <<>>) \o FmtNat(halves \div 2)
         \o (IF halves % 2 = 1 THEN <<".", "5">> ELSE <<>>)
\* str::parse::<f32> of [-]digits[.digits] with at most 7 digits: the f32 nearest
\* to the decimal; None for anything else
ParseF32(t) ==
    LET neg   == t # <<>> /\ t[1] = "-"
        body  == IF neg THEN SubSeq(t, 2, Len(t)) ELSE t
        parts == Split(body, ".")
        whole == parts[1]
        frac  == IF Len(parts) = 2 THEN parts[2] ELSE <<>>
        ok    == /\ Len(parts) <= 2 /\ AllDigits(whole \o frac)
                 /\ Len(whole \o frac) <= 7
        mag   == FDiv(FFromInt(DigitsValue(whole \o frac, Len(whole \o frac))),
                      FFromInt(Pow10(Len(frac))))
    IN IF ~ ok THEN None
       ELSE Some(IF neg THEN FNeg(mag) ELSE mag)

(***************************************************************************)
(* write_frames, read_metadata, read_frames and main's option handling.    *)
(***************************************************************************)
KwMetadata == <<"m", "e", "t", "a", "d", "a", "t", "a">>
KwVersion == <<"v", "e", "r", "s", "i", "o", "n">>
KwHeight == <<"h", "e", "i", "g", "h", "t">>
KwWidth == <<"w", "i", "d", "t", "h">>
KwSecPerFrame == <<"s", "e", "c", "_", "p", "e", "r", "_", "f", "r", "a", "m", "e">>
KwBbox == <<"b", "b", "o", "x">>
KwCentre == <<"c", "e", "n", "t", "r", "e">>
KwProjection == <<"p", "r", "o", "j", "e", "c", "t", "i", "o", "n">>
KwOrtho == <<"o", "r", "t", "h", "o">>
KwEquirect == <<"e", "q", "u", "i", "r", "e", "c", "t">>
\* env!("CARGO_PKG_VERSION"): the manifest is not part of the sources at hand
PkgVersion == <<"0", ".", "1", ".", "0">>

RECURSIVE JoinComma(_, _)
JoinComma(items, k) ==
    IF k = 0 THEN <<>>
    ELSE IF k = 1 THEN items[1]
    ELSE JoinComma(items, k - 1) \o <<",">> \o items[k]
\* writeln!(file, "metadata <key> <value>")
MetadataLine(key, value) == KwMetadata \o <<" ">> \o key \o <<" ">> \o value

\* write!(file, ",{},{}", p.0, p.1) for the first k deltas
RECURSIVE FmtPixels(_, _)
FmtPixels(pixels, k) ==
    IF k = 0 THEN <<>>
    ELSE FmtPixels(pixels, k - 1) \o <<",">> \o FmtNat(pixels[k][1])
                                  \o <<",">> \o FmtNat(pixels[k][2])
\* a frame written with each delta's count before its pixel
FrameLineSwapped(frame) ==
    FmtNat(frame[1])
      \o FmtPixels([k \in 1..Len(frame[2]) |-> <<frame[2][k][2], frame[2][k][1]>>],
                   Len(frame[2]))
\* write!(file, "{}", frame_no); the deltas; write!(file, "\n")
FrameLine(frame) == FmtNat(frame[1]) \o FmtPixels(frame[2], Len(frame[2]))

write_frames(frames, height, width, centre, spf, bbox, projection) ==
    << MetadataLine(KwVersion, PkgVersion),
       MetadataLine(KwHeight, FmtNat(height)),
       MetadataLine(KwWidth, FmtNat(width)),
       MetadataLine(KwSecPerFrame, FmtNat(spf)),
       MetadataLine(KwBbox, JoinComma([k \in 1..4 |-> FmtF32(bbox[k])], 4)),
       MetadataLine(KwCentre, JoinComma([k \in 1..2 |-> FmtF32(centre[k])], 2)),
       MetadataLine(KwProjection, IF projection = "ortho" THEN KwOrtho ELSE KwEquirect),
       <<>> >>
    \o [k \in 1..Len(frames) |-> FrameLine(frames[k])]

\* take_while(|x| x.len() > 0): the number of lines before the first empty one
RECURSIVE HeaderLength(_, _)
HeaderLength(lines, k) ==
    IF k > Len(lines) \/ lines[k] = <<>> THEN k - 1 ELSE HeaderLength(lines, k + 1)
\* x.split(" ").skip(1).take(2): (words[0], words[1]), collected into a HashMap
RECURSIVE CollectMetadata(_, _)
CollectMetadata(lines, k) ==
    IF k = 0 THEN EmptyMap
    ELSE LET words == Split(lines[k], " ")
         IN Put(CollectMetadata(lines, k - 1), words[2], words[3])
\* [panic, value]: words[1] is out of bounds on a header line of fewer than 3 words
read_metadata(lines) ==
    LET n == HeaderLength(lines, 1)
    IN IF \E k \in 1..n : Len(Split(lines[k], " ")) < 3
       THEN [panic |-> TRUE, value |-> EmptyMap]
       ELSE [panic |-> FALSE, value |-> CollectMetadata(lines, n)]

\* skip_while(|x| x.starts_with("metadata ") || x.len() == 0): the lines skipped
RECURSIVE SkippedLines(_, _)
SkippedLines(lines, k) ==
    IF k <= Len(lines) /\ (StartsWith(lines[k], KwMetadata \o <<" ">>) \/ lines[k] = <<>>)
    THEN SkippedLines(lines, k + 1) ELSE k - 1
\* one line of the body: Some(<<frame_no, pixels>>), None where an unwrap or pair[1] panics
ReadFrameLine(line) ==
    LET fields == Split(line, ",")
        frame  == ParseU32(fields[1])
        rest   == SubSeq(fields, 2, Len(fields))
        ok     == /\ IsSome(frame)
                  /\ Len(rest) % 2 = 0
                  /\ \A k \in 1..Len(rest) :
                        IsSome(IF k % 2 = 1 THEN ParseU32(rest[k]) ELSE ParseU16(rest[k]))
    IN IF ~ ok THEN None
       ELSE Some(<< Unwrap(frame),
                    [k \in 1..(Len(rest) \div 2) |->
                       << Unwrap(ParseU32(rest[2 * k - 1])),
                          Unwrap(ParseU16(rest[2 * k])) >>] >>)
read_frames(lines) ==
    LET from == SkippedLines(lines, 1)
        body == SubSeq(lines, from + 1, Len(lines))
    IN IF \E k \in 1..Len(body) : ReadFrameLine(body[k]) = None
       THEN [panic |-> TRUE, value |-> <<>>]
       ELSE [panic |-> FALSE, value |-> [k \in 1..Len(body) |-> Unwrap(ReadFrameLine(body[k]))]]

\* text.split(",").map(|x| x.parse().unwrap()).collect(), then coords[0..n]:
\* None where a parse fails or fewer than n numbers are given
ParseCoords(text, n) ==
    LET parts == Split(text, ",")
    IN IF Len(parts) < n \/ \E k \in 1..Len(parts) : ParseF32(parts[k]) = None
       THEN None
       ELSE Some([k \in 1..n |-> Unwrap(ParseF32(parts[k]))])
\* match matches.value_of(..) { None => metadata[key].parse().unwrap(), Some(t) => t.parse().unwrap() }
OptionOrMetadataU32(option, metadata, key) ==
    IF IsSome(option) THEN ParseU32(Unwrap(option))
    ELSE IF key \in DOMAIN metadata THEN ParseU32(metadata[key])
    ELSE None
\* match matches.value_of(..) { None => match metadata.get(key) { None => default, .. }, .. }
OptionOrMetadataCoords(option, metadata, key, n, default) ==
    IF IsSome(option) THEN ParseCoords(Unwrap(option), n)
    ELSE IF key \in DOMAIN metadata THEN ParseCoords(metadata[key], n)
    ELSE Some(default)
\* if matches.is_present("ortho") { Ortho } else if .. { Equirect } else { Equirect }
ProjectionOf(options) == IF options.ortho THEN "ortho" ELSE "equirect"

\* main, from the options to the call of read_pbf or read_frames: the settings
\* in effect, or a panic
Configure(options, metadata) ==
    LET height  == OptionOrMetadataU32(options.height, metadata, KwHeight)
        spf     == OptionOrMetadataU32(options.spf, metadata, KwSecPerFrame)
        bbox    == OptionOrMetadataCoords(options.bbox, metadata, KwBbox, 4, WorldBbox)
        centre  == OptionOrMetadataCoords(options.centre, metadata, KwCentre, 2, <<FZero, FZero>>)
        projection == ProjectionOf(options)
    IN IF height = None \/ spf = None \/ bbox = None \/ centre = None
       THEN [panic |-> TRUE]
       ELSE [panic |-> FALSE,
             height |-> Unwrap(height),
             width |-> CanvasWidth(projection, Unwrap(bbox), Unwrap(height)),
             sec_per_frame |-> Unwrap(spf),
             bbox |-> Unwrap(bbox),
             centre |-> Unwrap(centre),
             projection |-> projection]

NoOption == [height |-> None, spf |-> None, bbox |-> None, centre |-> None,
             ortho |-> FALSE, equirect |-> FALSE]
HalfBbox == <<Deg17(-21 * (Unit17 \div 2)), Deg17(51 * Unit17), Deg17(3 * (Unit17 \div 2)), Deg17(111 * (Unit17 \div 2))>>
\* the options of a run that reads a PBF file: --height and --sec-per-frame are needed
SaveOptionSet ==
    { [height |-> Some(FmtNat(hs[1])), spf |-> Some(FmtNat(hs[2])), bbox |-> b, centre |-> c,
       ortho |-> o, equirect |-> FALSE] :
        hs \in {<<4, 1>>, <<20, 3600>>},
        b \in {None, Some(JoinComma([k \in 1..4 |-> FmtF32(HalfBbox[k])], 4))},
        c \in {None, Some(<<"5", "3", ".", "5", ",", "-", "7", ".", "5">>)},
        o \in BOOLEAN }
\* the options of a run that loads: none, or one of them
LoadOptionSet ==
    { NoOption,
      [NoOption EXCEPT !.height = Some(<<"8">>)],
      [NoOption EXCEPT !.spf = Some(<<"6", "0">>)],
      [NoOption EXCEPT !.bbox = Some(<<"0", ",", "0", ",", "1", "0", ",", "1", "0">>)],
      [NoOption EXCEPT !.centre = Some(<<"1", ",", "1">>)],
      [NoOption EXCEPT !.ortho = TRUE],
      [NoOption EXCEPT !.equirect = TRUE] }

\* the deltas of one frame as read_pbf leaves them: each pixel once
FilePixelsSet ==
    { <<>>, << <<0, 1>> >>, << <<12, 7>>, <<0, U16Max>> >>,
      << <<3, 10>>, <<159, 2>>, <<40, 300>> >> }
\* Frames as read_pbf returns them: numbered from 0
FramesSet ==
    UNION { [1..n -> FilePixelsSet] : n \in 0..MaxFileFrames }
NumberFrames(pixels) == [k \in 1..Len(pixels) |-> <<k - 1, pixels[k]>>]

IdleFile ==
    /\ file_pc = "idle"
    /\ saved_cfg = [panic |-> TRUE]
    /\ frames_mem = <<>>
    /\ file = <<>>
    /\ cli = NoOption
    /\ loaded_cfg = [panic |-> TRUE]
    /\ loaded_frames = <<>>

\* a run with --save-intermediate has configured itself and holds read_pbf's Frames
InitFile ==
    /\ file_pc = "start"
    /\ \E options \in SaveOptionSet : saved_cfg = Configure(options, EmptyMap)
    /\ \E pixels \in FramesSet : frames_mem = NumberFrames(pixels)
    /\ file = <<>>
    /\ cli = NoOption
    /\ loaded_cfg = [panic |-> TRUE]
    /\ loaded_frames = <<>>

\* main with --save-intermediate: write_frames(frames, .., height, width, ..)
SaveIntermediate ==
    /\ file_pc = "start"
    /\ file' = write_frames(frames_mem, saved_cfg.height, saved_cfg.width, saved_cfg.centre,
                            saved_cfg.sec_per_frame, saved_cfg.bbox, saved_cfg.projection)
    /\ file_pc' = "saved"
    /\ UNCHANGED <<saved_cfg, frames_mem, cli, loaded_cfg, loaded_frames>>
    /\ UNCHANGED <<ingestVars, rampVars, projVars, renderVars>>

\* main with --load-intermediate: read_metadata, the settings, read_frames
LoadIntermediate ==
    /\ file_pc = "saved"
    /\ \E options \in LoadOptionSet :
         LET metadata == read_metadata(file)
             cfg      == Configure(options, metadata.value)
             frames   == read_frames(file)
         IN /\ cli' = options
            /\ IF metadata.panic \/ cfg.panic \/ frames.panic
               THEN /\ file_pc' = "panic"
                    /\ UNCHANGED <<loaded_cfg, loaded_frames>>
               ELSE /\ file_pc' = "loaded"
                    /\ loaded_cfg' = cfg
                    /\ loaded_frames' = frames.value
    /\ UNCHANGED <<saved_cfg, frames_mem, file>>
    /\ UNCHANGED <<ingestVars, rampVars, projVars, renderVars>>

(***************************************************************************)
(* The ingest pass over an arbitrary bounded stream of nodes.              *)
(***************************************************************************)
\* days since 1970-01-01 of a civil date (proleptic Gregorian)
DaysFromCivil(y, m, d) ==
    LET yy  == IF m <= 2 THEN y - 1 ELSE y
        era == yy \div 400
        yoe == yy - era * 400
        mp  == (m + 9) % 12
        doy == (153 * mp + 2) \div 5 + d - 1
        doe == yoe * 365 + yoe \div 4 - yoe \div 100 + doy
    IN era * 146097 + doe - 719468
\* 1 April 2005, 00:00 UTC, in seconds since 1970
EpochApril2005 == DaysFromCivil(2005, 4, 1) * 86400

SecPerFrameSet == {1, 7, 3600}
TimestampSet ==
    { U64(osm_epoch - 1), U64(osm_epoch), U64(osm_epoch + 1), U64(osm_epoch + 2),
      U64(EpochApril2005), U64(EpochApril2005 + 3),
      WAdd(U64(osm_epoch), Widen(U32Max)),      \* offset 2^32 - 1
      WAdd(U64(osm_epoch), <<0, 0, 1, 0>>) }    \* offset 2^32
PixelSet == {None, Some(0), Some(1)}
NodeSet ==
    [coords : {TRUE}, timestamp : TimestampSet, pixel : PixelSet]
      \cup { [coords |-> FALSE, timestamp |-> U64(0), pixel |-> None] }

IdleIngest ==
    /\ overflow_checks = FALSE
    /\ sec_per_frame = 1
    /\ results = EmptyMap
    /\ first_frame_no = U32Max
    /\ last_frame_no = U32(0)
    /\ frame_no = U32(0)
    /\ num_nodes = 0
    /\ pc = "idle"
    /\ sorted_results = <<>>
    /\ stream = <<>>

otherThanIngest == <<rampVars, projVars, renderVars, fileVars>>

InitIngest ==
    /\ overflow_checks \in BOOLEAN
    /\ sec_per_frame \in SecPerFrameSet
    /\ results = EmptyMap
    /\ first_frame_no = U32Max
    /\ last_frame_no = U32(0)
    /\ frame_no = U32(0)
    /\ num_nodes = 0
    /\ pc = "reading"
    /\ sorted_results = <<>>
    /\ stream = <<>>

Read ==
    \E node \in NodeSet :
        /\ Len(stream) < MaxEvents
        /\ ReadNode(node)
        /\ stream' = Append(stream, node)
        /\ UNCHANGED otherThanIngest

EndOfStream == Finalize /\ UNCHANGED otherThanIngest

Init == InitIngest /\ IdleRamp /\ IdleProj /\ IdleRender /\ IdleFile
Next == Read \/ EndOfStream
Spec == Init /\ [][Next]_vars

(***************************************************************************)
(* The ingest pass over nodes that all fall in one (frame, pixel) cell.    *)
(***************************************************************************)
SatNodeSet ==
    [coords : {TRUE},
     timestamp : {U64(osm_epoch), U64(osm_epoch + 1), U64(osm_epoch + 2)},
     pixel : {Some(0)}]

InitSat ==
    /\ InitIngest /\ sec_per_frame = 7 /\ overflow_checks = FALSE
    /\ IdleRamp /\ IdleProj /\ IdleRender /\ IdleFile

ReadSame ==
    \E node \in SatNodeSet :
        /\ num_nodes < MaxSatNodes
        /\ ReadNode(node)
        /\ UNCHANGED <<stream, otherThanIngest>>

NextSat == ReadSame
SpecSat == InitSat /\ [][NextSat]_vars

(***************************************************************************)
(* Claims about the ingest pass.                                           *)
(***************************************************************************)
CoordNodes == { i \in 1..Len(stream) : stream[i].coords }
AtOrAfterApril(node) == WLe(U64(EpochApril2005), node.timestamp)
StreamFrames == { FrameNo(stream[i].timestamp, sec_per_frame) : i \in CoordNodes }
MinFrame == CHOOSE f \in StreamFrames : \A g \in StreamFrames : WLe(f, g)
MaxFrame == CHOOSE f \in StreamFrames : \A g \in StreamFrames : WLe(g, f)
\* the nodes of the stream that fall in cell (f, p)
CellNodes(f, p) ==
    { i \in CoordNodes : /\ FrameNo(stream[i].timestamp, sec_per_frame) = f
                         /\ stream[i].pixel = Some(p) }
\* the pixel -> count association a frame of the aggregate should hold
ExpectedDeltas(f) ==
    { <<p, Min(Cardinality(CellNodes(f, p)), U16Max)>> :
        p \in { q \in {0, 1} : CellNodes(f, q) # {} } }
DeltaSet(pixels) == { pixels[k] : k \in 1..Len(pixels) }

\* C1 (as claimed): for a non-empty stream of nodes with coordinates and
\* timestamps at or after the epoch, once the stream is exhausted read_pbf
\* returns exactly lastFrame - firstFrame + 1 records, the i-th numbered i
\* and holding the deltas recorded for original frame firstFrame + i (each
\* pixel once), or none.
C1_DenseNumbering ==
    ( /\ CoordNodes # {}
      /\ \A i \in CoordNodes : AtOrAfterApril(stream[i])
      /\ pc # "reading" )
    => /\ pc = "done"
       /\ U64(Len(sorted_results)) = WAdd(Widen(WSub(MaxFrame, MinFrame)), U64(1))
       /\ \A i \in 1..Len(sorted_results) :
            /\ sorted_results[i][1] = i - 1
            /\ Len(sorted_results[i][2]) = Cardinality(DeltaSet(sorted_results[i][2]))
            /\ DeltaSet(sorted_results[i][2]) = ExpectedDeltas(WAdd(MinFrame, U32(i - 1)))

\* C2: with n nodes read, all in one cell, the cell's count is min(n, 65535)
\* (and it is the only cell); the count never decreases from one read to the next.
C2_CellIs(n) ==
    IF n = 0 THEN results = EmptyMap
    ELSE /\ DOMAIN results = {U32(0)}
         /\ DOMAIN results[U32(0)] = {0}
         /\ results[U32(0)][0] = Min(n, U16Max)
C2_SaturatingCount ==
    /\ [](C2_CellIs(num_nodes))
    /\ [][num_nodes > 0 => results'[U32(0)][0] >= results[U32(0)][0]]_vars
C2_Witness == num_nodes = MaxSatNodes /\ C2_CellIs(num_nodes) /\ results[U32(0)][0] = U16Max

\* C3 (as claimed): for a node read with timestamp T >= EPOCH (1 April 2005)
\* the frame number computed is floor((T - EPOCH) / sec_per_frame), and the
\* frame number is non-decreasing in T.
C3_FrameNumberIsFloor ==
    /\ ( /\ stream # <<>>
         /\ stream[Len(stream)].coords
         /\ AtOrAfterApril(stream[Len(stream)]) )
       => Widen(frame_no) =
            WDiv(WSub(stream[Len(stream)].timestamp, U64(EpochApril2005)), sec_per_frame)
    /\ \A i, j \in CoordNodes :
         ( /\ AtOrAfterApril(stream[i]) /\ AtOrAfterApril(stream[j])
           /\ WLe(stream[i].timestamp, stream[j].timestamp) )
         => WLe(FrameNo(stream[i].timestamp, sec_per_frame),
                FrameNo(stream[j].timestamp, sec_per_frame))

\* C4 (as claimed): a node with coordinates and a timestamp before the epoch
\* (1 April 2005, 00:00 UTC) aborts the pass and no frame sequence is produced;
\* a stream with every timestamp at or after the epoch never aborts this way.
C4_PreEpochAborts ==
    /\ (\E i \in CoordNodes : ~ AtOrAfterApril(stream[i]))
         => (pc = "panic_timestamp" /\ sorted_results = <<>>)
    /\ (\A i \in CoordNodes : AtOrAfterApril(stream[i]))
         => pc # "panic_timestamp"

(***************************************************************************)
(* index_for_magnitude applied to one magnitude.                           *)
(***************************************************************************)
InitRampSpec == InitRamp /\ IdleIngest /\ IdleProj /\ IdleRender /\ IdleFile
NextRamp == CallIndexForMagnitude
SpecRamp == InitRampSpec /\ [][NextRamp]_vars

\* C10 (as claimed): index_for_magnitude returns palette index 0 if and only
\* if the magnitude is None; every set magnitude yields a non-zero index.
C10_IndexZeroIffNone ==
    IsSome(ramp_index) => (Unwrap(ramp_index) = 0 <=> ramp_magnitude = None)

(***************************************************************************)
(* latlon_to_pixel_index applied to one point.                             *)
(***************************************************************************)
InitProjSpec == InitProj /\ IdleIngest /\ IdleRamp /\ IdleRender /\ IdleFile
NextProj == CallLatlonToPixelIndex
SpecProj == InitProjSpec /\ [][NextProj]_vars

\* the exact value of an f32 that is a multiple of 2^-17, in units of 2^-17
Exact17(a) ==
    (IF a.s = 1 THEN -1 ELSE 1) *
    (IF a.e + 17 >= 0 THEN a.m * 2^(a.e + 17) ELSE a.m \div 2^(-(a.e + 17)))
\* the point lies strictly inside the bounding box
StrictlyInside(lat, lon, bbox) ==
    /\ Exact17(bbox[2]) < Exact17(lat) /\ Exact17(lat) < Exact17(bbox[4])
    /\ Exact17(bbox[1]) < Exact17(lon) /\ Exact17(lon) < Exact17(bbox[3])
\* x = floor((lon - left)/(right - left) * width), y = floor((top - lat)/(top - bottom) * height)
ExactX(lon, width, bbox) ==
    ((Exact17(lon) - Exact17(bbox[1])) * width) \div (Exact17(bbox[3]) - Exact17(bbox[1]))
ExactY(lat, height, bbox) ==
    ((Exact17(bbox[4]) - Exact17(lat)) * height) \div (Exact17(bbox[4]) - Exact17(bbox[2]))

\* C5 (as claimed): a point on or beyond an edge of the bbox gives None; a
\* point strictly inside gives Some(y * width + x) with x and y the floors
\* above, an index in [0, width * height), and the assertion never fires;
\* bbox [-10,-10,10,10], width = height = 20, lat = lon = 5 gives 115.
C5_Projection ==
    proj_ret.called =>
      LET a == proj_args
      IN /\ ~ proj_ret.panic
         /\ ~ StrictlyInside(a.lat, a.lon, a.bbox) => proj_ret.value = None
         /\ StrictlyInside(a.lat, a.lon, a.bbox) =>
              /\ proj_ret.value =
                    Some(ExactY(a.lat, a.height, a.bbox) * a.width + ExactX(a.lon, a.width, a.bbox))
              /\ Unwrap(proj_ret.value) \in 0..(a.width * a.height - 1)
         /\ ( a.bbox = SmallBbox /\ a.width = 20 /\ a.height = 20
              /\ a.lat = Deg17(5 * Unit17) /\ a.lon = Deg17(5 * Unit17) )
              => proj_ret.value = Some(115)

(***************************************************************************)
(* The render pass over an arbitrary bounded sequence of frame records.    *)
(***************************************************************************)
InitRenderSpec == InitRender /\ IdleIngest /\ IdleRamp /\ IdleProj /\ IdleFile
NextRender == CreateGifFrame \/ CreateFramesFrame
SpecRender == InitRenderSpec /\ [][NextRender]_vars

\* x * 0.99 * ... * 0.99 (k factors), evaluated in f32 from the left
RECURSIVE DecayedBy(_, _)
DecayedBy(x, k) == IF k = 0 THEN x ELSE FMul(DecayedBy(x, k - 1), DecayFactor)

\* C8: a pixel that the last k frames added nothing to holds the magnitude it
\* had before them times 0.99^k (k multiplications by the f32 0.99, each
\* rounded as f32 rounds); a pixel no in-range delta was ever added to is
\* unset; no magnitude is negative or NaN.
C8_DecayLaw ==
    \A i \in 1..Len(image) :
        /\ since_base[i] = None => image[i] = None
        /\ since_base[i] # None =>
              /\ image[i] = Some(DecayedBy(Unwrap(since_base[i]), since_frames[i]))
              /\ ~ Unwrap(image[i]).nan
              /\ Unwrap(image[i]).s = 0
C8_Witness ==
    /\ frames_done = MaxRenderFrames
    /\ since_frames[2] = 2 /\ since_base[2] = Some(FFromInt(U16Max))
    /\ FLt(Unwrap(image[2]), FFromInt(U16Max))
    /\ since_base[1] = None /\ image[1] = None

InitFileSpec == InitFile /\ IdleIngest /\ IdleRamp /\ IdleProj /\ IdleRender
NextFile == SaveIntermediate \/ LoadIntermediate
SpecFile == InitFileSpec /\ [][NextFile]_vars

\* C6: once the file written by write_frames has been read back by read_frames,
\* the frames read are as many as the frames written, carry the same frame
\* numbers in the same order, and each holds the same pixel -> count
\* associations (also for a frame without deltas and for a count of 65535).
C6_FramesRoundTrip ==
    file_pc = "loaded" =>
        /\ Len(loaded_frames) = Len(frames_mem)
        /\ \A k \in 1..Len(frames_mem) :
              /\ loaded_frames[k][1] = frames_mem[k][1]
              /\ DeltaSet(loaded_frames[k][2]) = DeltaSet(frames_mem[k][2])
              /\ Len(loaded_frames[k][2]) = Len(frames_mem[k][2])
C6_Witness ==
    /\ file_pc = "loaded"
    /\ Len(frames_mem) = MaxFileFrames
    /\ frames_mem[1][2] = <<>>
    /\ \E k \in 1..Len(frames_mem[2][2]) : frames_mem[2][2][k][2] = U16Max
    /\ loaded_frames = frames_mem

\* C7 (as claimed): once a file saved by one run has been loaded by a run given
\* no option that overrides a setting, the height, width, seconds per frame,
\* bounding box, centre and projection in effect equal those of the saving run.
C7_ConfigRoundTrip ==
    (file_pc = "loaded" /\ cli = NoOption) => loaded_cfg = saved_cfg


=============================================================================

